---------------------------- MODULE Spec2Model ----------------------------
(***************************************************************************)
(* A model of opds-server: the read-only repository over the Calibre       *)
(* metadata store (db/access.py), the feed builder and serializer          *)
(* (services/opds.py) and the route handlers (api/catalog.py, main.py).    *)
(*                                                                         *)
(* Text is a sequence of one-character strings, so that escaping, case     *)
(* folding, LIKE matching and URL encoding are computed character by       *)
(* character.  A serialized document is the record of the character        *)
(* sequences the f-string templates place in each of their slots.          *)
(***************************************************************************)
EXTENDS Integers, Sequences, FiniteSets, TLC

VARIABLES store, op, out, walk

vars == <<store, op, out, walk>>

(***************************************************************************)
(* Bounds of the model.                                                    *)
(***************************************************************************)
MaxBooks == 4
MaxAuthors == 3
MaxPage == 3
MaxLimit == 3

(***************************************************************************)
(* Characters: printable ASCII, in code order (32 .. 126).  The grave      *)
(* accent (96) is held by a name, as it cannot be written in a string.     *)
(***************************************************************************)
Ascii ==
  <<" ", "!", "\"", "#", "$", "%", "&", "'", "(", ")", "*", "+", ",", "-",
    ".", "/", "0", "1", "2", "3", "4", "5", "6", "7", "8", "9", ":", ";",
    "<", "=", ">", "?", "@", "A", "B", "C", "D", "E", "F", "G", "H", "I",
    "J", "K", "L", "M", "N", "O", "P", "Q", "R", "S", "T", "U", "V", "W",
    "X", "Y", "Z", "[", "\\", "]", "^", "_", "GRAVE", "a", "b", "c", "d", "e",
    "f", "g", "h", "i", "j", "k", "l", "m", "n", "o", "p", "q", "r", "s",
    "t", "u", "v", "w", "x", "y", "z", "{", "|", "}", "~">>

OrdTable == [c \in {Ascii[i] : i \in 1..Len(Ascii)} |-> 31 + (CHOOSE i \in 1..Len(Ascii) : Ascii[i] = c)]

Ord(c) == OrdTable[c]

Chr(n) == Ascii[n - 31]

IsUpper(c) == Ord(c) >= 65 /\ Ord(c) <= 90
IsLower(c) == Ord(c) >= 97 /\ Ord(c) <= 122
IsDigit(c) == Ord(c) >= 48 /\ Ord(c) <= 57

LowerChar(c) == IF IsUpper(c) THEN Chr(Ord(c) + 32) ELSE c
UpperChar(c) == IF IsLower(c) THEN Chr(Ord(c) - 32) ELSE c

\* str.lower() / str.upper() (and SQLite's LOWER()) on ASCII text
Lower(s) == [i \in 1..Len(s) |-> LowerChar(s[i])]
Upper(s) == [i \in 1..Len(s) |-> UpperChar(s[i])]

\* str.strip(): leading and trailing white space removed
RECURSIVE LStrip(_)
LStrip(s) == IF s # <<>> /\ s[1] = " " THEN LStrip(Tail(s)) ELSE s

RECURSIVE RStrip(_)
RStrip(s) ==
  IF s # <<>> /\ s[Len(s)] = " " THEN RStrip(SubSeq(s, 1, Len(s) - 1)) ELSE s

Strip(s) == RStrip(LStrip(s))

\* str(n) for an integer n >= 0: its decimal digits
RECURSIVE Str(_)
Str(n) == IF n < 10 THEN <<Chr(48 + n)>> ELSE Str(n \div 10) \o <<Chr(48 + (n % 10))>>

SeqToSet(q) == {q[k] : k \in 1..Len(q)}

Min(a, b) == IF a < b THEN a ELSE b
Max(a, b) == IF a > b THEN a ELSE b

\* byte-wise comparison of two texts (SQLite's BINARY collation)
RECURSIVE TextLess(_, _)
TextLess(a, b) ==
  IF b = <<>> THEN FALSE
  ELSE IF a = <<>> THEN TRUE
  ELSE IF a[1] # b[1] THEN Ord(a[1]) < Ord(b[1])
  ELSE TextLess(Tail(a), Tail(b))

\* s[from:] contains t at its start
StartsWith(s, t) == Len(t) <= Len(s) /\ SubSeq(s, 1, Len(t)) = t

\* t occurs in s as a contiguous run of characters
Contains(s, t) ==
  \E k \in 0..(Len(s) - Len(t)) : SubSeq(s, k + 1, k + Len(t)) = t

(***************************************************************************)
(* The string literals of the program, as the characters they hold.        *)
(***************************************************************************)
Lit ==
  [ calibre_navcatalog |-> <<"c", "a", "l", "i", "b", "r", "e", "-", "n", "a", "v", "c", "a", "t", "a", "l", "o", "g", ":">>,
    amp |-> <<"&", "a", "m", "p", ";">>,
    lt |-> <<"&", "l", "t", ";">>,
    gt |-> <<"&", "g", "t", ";">>,
    quot |-> <<"&", "q", "u", "o", "t", ";">>,
    apos |-> <<"&", "#", "x", "2", "7", ";">>,
    epub |-> <<"e", "p", "u", "b">>,
    pdf |-> <<"p", "d", "f">>,
    mobi |-> <<"m", "o", "b", "i">>,
    fb2 |-> <<"f", "b", "2">>,
    djvu |-> <<"d", "j", "v", "u">>,
    opds |-> <<"/", "o", "p", "d", "s">>,
    opensearch |-> <<"/", "o", "p", "d", "s", "/", "o", "p", "e", "n", "s", "e", "a", "r", "c", "h", ".", "x", "m", "l">>,
    by_newest |-> <<"/", "o", "p", "d", "s", "/", "b", "y", "-", "n", "e", "w", "e", "s", "t">>,
    by_title |-> <<"/", "o", "p", "d", "s", "/", "b", "y", "-", "t", "i", "t", "l", "e">>,
    by_author |-> <<"/", "o", "p", "d", "s", "/", "b", "y", "-", "a", "u", "t", "h", "o", "r">>,
    author |-> <<"/", "o", "p", "d", "s", "/", "a", "u", "t", "h", "o", "r", "/">>,
    search |-> <<"/", "o", "p", "d", "s", "/", "s", "e", "a", "r", "c", "h">>,
    book |-> <<"/", "o", "p", "d", "s", "/", "b", "o", "o", "k", "/">>,
    file |-> <<"/", "f", "i", "l", "e", "/">>,
    cover |-> <<"/", "c", "o", "v", "e", "r">>,
    page |-> <<"?", "p", "a", "g", "e", "=">>,
    q |-> <<"q">>,
    catalog_title |-> <<"C", "a", "l", "i", "b", "r", "e", " ", "O", "P", "D", "S", " ", "C", "a", "t", "a", "l", "o", "g">>,
    books_by |-> <<"B", "o", "o", "k", "s", " ", "b", "y", " ">>,
    search_results |-> <<"S", "e", "a", "r", "c", "h", " ", "r", "e", "s", "u", "l", "t", "s", " ", "f", "o", "r", " ", "'">>,
    urn_main |-> <<"u", "r", "n", ":", "o", "p", "d", "s", "-", "s", "e", "r", "v", "e", "r", ":", "m", "a", "i", "n">>,
    urn_by_newest |-> <<"u", "r", "n", ":", "o", "p", "d", "s", "-", "s", "e", "r", "v", "e", "r", ":", "b", "y", "-", "n", "e", "w", "e", "s", "t">>,
    urn_by_title |-> <<"u", "r", "n", ":", "o", "p", "d", "s", "-", "s", "e", "r", "v", "e", "r", ":", "b", "y", "-", "t", "i", "t", "l", "e">>,
    urn_by_author |-> <<"u", "r", "n", ":", "o", "p", "d", "s", "-", "s", "e", "r", "v", "e", "r", ":", "b", "y", "-", "a", "u", "t", "h", "o", "r">>,
    urn_author |-> <<"u", "r", "n", ":", "o", "p", "d", "s", "-", "s", "e", "r", "v", "e", "r", ":", "a", "u", "t", "h", "o", "r", ":">>,
    urn_search |-> <<"u", "r", "n", ":", "o", "p", "d", "s", "-", "s", "e", "r", "v", "e", "r", ":", "s", "e", "a", "r", "c", "h", ":">>,
    By_Newest |-> <<"B", "y", " ", "N", "e", "w", "e", "s", "t">>,
    By_Title |-> <<"B", "y", " ", "T", "i", "t", "l", "e">>,
    By_Author |-> <<"B", "y", " ", "A", "u", "t", "h", "o", "r">>,
    By_Authors |-> <<"B", "y", " ", "A", "u", "t", "h", "o", "r", "s">>,
    server_name |-> <<"C", "a", "l", "i", "b", "r", "e", " ", "O", "P", "D", "S", " ", "S", "e", "r", "v", "e", "r">> ]

(***************************************************************************)
(* The metadata store.  The library is a subset of a fixed universe of     *)
(* book rows; the authors table, the books_authors_link table and the data *)
(* table hold the rows of the universe that belong to the books present.   *)
(***************************************************************************)
TitlePool ==
  << <<"D", "u", "n", "e">>,
     <<"a", "<", "b", "&", "\"", "'", ">">>,
     <<"D", "U", "N", "E", " ", "2">>,
     <<"a", "_", "b">>,
     <<"1", "0", "0", "%">> >>

NamePool ==
  << <<"A", "l">>,
     <<"B", "&", "<", "'">>,
     <<"c", "y">>,
     <<"D", ">", "\"">> >>

\* books.title, books.sort, books.last_modified, books.path of the row with id i
BookTitle(i) == TitlePool[((i - 1) % Len(TitlePool)) + 1]
BookSort(i) == Lower(BookTitle(i))
BookLastModified(i) == ((2 * i) % 3) + 1
BookPath(i) == <<"b">> \o Str(i)

\* authors.name, authors.sort of the row with id a
AuthorName(a) == NamePool[((a - 1) % Len(NamePool)) + 1]

\* books_authors_link rows of book i, in rowid order: the fourth book of
\* every four has no author, the second has two
BookAuthors(i) ==
  CASE i % 4 = 1 -> <<((i - 1) % MaxAuthors) + 1>>
    [] i % 4 = 2 -> <<2, 1>>
    [] i % 4 = 3 -> <<3>>
    [] OTHER -> <<>>


\* data rows (format, name) of book i, in rowid order; formats are stored
\* in upper case
BookFiles(i) ==
  CASE i % 4 = 1 -> <<[format |-> <<"E", "P", "U", "B">>, name |-> <<"f">> \o Str(i)],
                      [format |-> <<"P", "D", "F">>, name |-> <<"f">> \o Str(i)]>>
    [] i % 4 = 2 -> <<[format |-> <<"A", "Z", "W", "3">>, name |-> <<"f">> \o Str(i)]>>
    [] i % 4 = 3 -> <<[format |-> <<"E", "P", "U", "B">>, name |-> <<"f">> \o Str(i)]>>
    [] OTHER -> <<>>

BookIds == 1..MaxBooks
AuthorIds == 1..MaxAuthors

\* a store: the books present, and whether metadata.db exists at the
\* configured library path
Stores == [books : SUBSET BookIds, present : BOOLEAN]

\* the ids of 1..n that are in the set S, in rowid order
RowsWhere(n, S) == SelectSeq([i \in 1..n |-> i], LAMBDA i : i \in S)

(***************************************************************************)
(* Results: every value an operation returns or raises is a record with a  *)
(* kind.                                                                   *)
(***************************************************************************)
HTTPException(code, detail) == [kind |-> "HTTPException", status_code |-> code, detail |-> detail]
TypeError == [kind |-> "TypeError"]
IndexError == [kind |-> "IndexError"]

IsRaise(r) == r.kind \in {"HTTPException", "TypeError", "IndexError"}

\* get_db_path: the store is reachable iff metadata.db exists in the library
\* directory
DbDir == <<"/", "b", "o", "o", "k", "s", "/">>

Detail(msg, id, text) == [msg |-> msg, id |-> id, text |-> text]

get_db_path(st) ==
  LET path == DbDir \o <<"m", "e", "t", "a", "d", "a", "t", "a", ".", "d", "b">>
  IN  IF ~st.present
        THEN HTTPException(500, Detail("Calibre DB not found at", 0, path))
        ELSE [kind |-> "path", path |-> path]

connect_db(st) == get_db_path(st)

(***************************************************************************)
(* SQL: LIKE, ORDER BY, LIMIT / OFFSET.                                    *)
(***************************************************************************)
\* SQLite's LIKE: % matches any run of characters, _ any one character,
\* every other character itself without regard to ASCII case
RECURSIVE Like(_, _)
Like(s, p) ==
  IF p = <<>> THEN s = <<>>
  ELSE IF p[1] = "%" THEN Like(s, Tail(p)) \/ (s # <<>> /\ Like(Tail(s), p))
  ELSE IF s = <<>> THEN FALSE
  ELSE IF p[1] = "_" THEN Like(Tail(s), Tail(p))
  ELSE LowerChar(s[1]) = LowerChar(p[1]) /\ Like(Tail(s), Tail(p))

\* ORDER BY a text column and ORDER BY an integer column, key[i] being the
\* column's value in row i; rows with equal keys come in rowid order
OrderByText(rows, key) ==
  SortSeq(rows, LAMBDA a, b : TextLess(key[a], key[b]) \/ (key[a] = key[b] /\ a < b))

OrderByInt(rows, key) ==
  SortSeq(rows, LAMBDA a, b : key[a] < key[b] \/ (key[a] = key[b] /\ a < b))

\* LIMIT count OFFSET offset
SqlLimit(rows, count, offset) ==
  SubSeq(rows, offset + 1, Min(offset + count, Len(rows)))

\* books[:limit]
Slice(rows, limit) == SubSeq(rows, 1, Min(limit, Len(rows)))

(***************************************************************************)
(* The repository (db/access.py).                                          *)
(***************************************************************************)
\* the rows each query selects, before LIMIT and OFFSET
BooksOrderedBy(st, sort_field) ==
  LET rows == RowsWhere(MaxBooks, st.books)
  IN  IF sort_field = "title" THEN OrderByText(rows, [i \in BookIds |-> BookTitle(i)])
      ELSE OrderByInt(rows, [i \in BookIds |-> BookLastModified(i)])

AuthorsOrdered(st) ==
  OrderByText(RowsWhere(MaxAuthors, AuthorIds), [a \in AuthorIds |-> Lower(AuthorName(a))])

AuthorBooksOrdered(st, author_id) ==
  OrderByText(
    RowsWhere(MaxBooks,
      {i \in st.books : \E k \in 1..Len(BookAuthors(i)) : BookAuthors(i)[k] = author_id}),
    [i \in BookIds |-> BookSort(i)])

SearchOrdered(st, query) ==
  OrderByText(
    RowsWhere(MaxBooks,
      {i \in st.books : Like(Lower(BookTitle(i)), Lower(<<"%">> \o query \o <<"%">>))}),
    [i \in BookIds |-> BookSort(i)])

\* add_authors: one dictionary per book row, with the authors the link table
\* joins to it
add_authors(books) ==
  [k \in 1..Len(books) |->
    [id |-> books[k],
     title |-> BookTitle(books[k]),
     last_modified |-> BookLastModified(books[k]),
     authors |-> [j \in 1..Len(BookAuthors(books[k])) |->
                   [id |-> BookAuthors(books[k])[j], name |-> AuthorName(BookAuthors(books[k])[j])]]]]

\* add_files: the data rows of each book
add_files(books) ==
  [k \in 1..Len(books) |->
    [id |-> books[k].id,
     title |-> books[k].title,
     last_modified |-> books[k].last_modified,
     authors |-> books[k].authors,
     files |-> BookFiles(books[k].id)]]

Page(rows, has_previous, has_next) ==
  [kind |-> "page", rows |-> rows, has_previous |-> has_previous, has_next |-> has_next]

\* select_books(sql, page, limit, parameters), rows being what sql selects
select_books(st, rows, page, limit) ==
  IF IsRaise(connect_db(st)) THEN connect_db(st)
  ELSE
    LET offset == (page - 1) * limit
        books == SqlLimit(rows, limit + 1, offset)
        has_next == Len(books) > limit
        has_previous == offset > 0
    IN  Page(add_files(add_authors(Slice(books, limit))), has_previous, has_next)

get_books(st, sort, page, limit) ==
  IF sort = "by_title" THEN select_books(st, BooksOrderedBy(st, "title"), page, limit)
  ELSE IF sort = "by_newest" THEN select_books(st, BooksOrderedBy(st, "last_modified"), page, limit)
  ELSE HTTPException(400, Detail("Invalid sort parameter", 0, <<>>))

get_authors(st, page, limit) ==
  IF IsRaise(connect_db(st)) THEN connect_db(st)
  ELSE
    LET offset == (page - 1) * limit
        authors == SqlLimit(AuthorsOrdered(st), limit + 1, offset)
        has_next == Len(authors) > limit
        has_previous == offset > 0
    IN  Page([k \in 1..Len(authors) |-> [id |-> authors[k], name |-> AuthorName(authors[k])]],
             has_previous, has_next)

get_author_books(st, author_id, page, limit) ==
  select_books(st, AuthorBooksOrdered(st, author_id), page, limit)

search_books(st, query, page, limit) ==
  select_books(st, SearchOrdered(st, query), page, limit)

\* the data row of book_id whose format column equals book_format, if any
FileRows(book_id, book_format) ==
  SelectSeq(BookFiles(book_id), LAMBDA f : f.format = book_format)

\* get_book_file_path with the two lookups in the other order
get_book_file_path_FormatFirst(st, book_id, book_format) ==
  LET fmt == Strip(Upper(book_format))
  IN  IF IsRaise(connect_db(st)) THEN connect_db(st)
      ELSE IF book_id \notin st.books \/ FileRows(book_id, fmt) = <<>>
        THEN HTTPException(404, Detail("Book file not found for book_id with format", book_id, fmt))
      ELSE [kind |-> "path",
            path |-> DbDir \o BookPath(book_id) \o <<"/">>
                       \o FileRows(book_id, fmt)[1].name \o <<".">> \o Lower(fmt)]

get_book_file_path(st, book_id, book_format) ==
  LET fmt == Strip(Upper(book_format))
  IN  IF IsRaise(connect_db(st)) THEN connect_db(st)
      ELSE IF book_id \notin st.books
        THEN HTTPException(404, Detail("Book with id not found", book_id, <<>>))
      ELSE IF FileRows(book_id, fmt) = <<>>
        THEN HTTPException(404, Detail("Book file not found for book_id with format", book_id, fmt))
      ELSE [kind |-> "path",
            path |-> DbDir \o BookPath(book_id) \o <<"/">>
                       \o FileRows(book_id, fmt)[1].name \o <<".">> \o Lower(fmt)]

get_book_title(st, book_id) ==
  IF IsRaise(connect_db(st)) THEN connect_db(st)
  ELSE IF book_id \notin st.books THEN HTTPException(404, Detail("Book not found", 0, <<>>))
  ELSE [kind |-> "text", text |-> BookTitle(book_id)]

get_author_name(st, author_id) ==
  IF IsRaise(connect_db(st)) THEN connect_db(st)
  ELSE IF author_id \notin AuthorIds THEN HTTPException(404, Detail("Author not found", 0, <<>>))
  ELSE [kind |-> "text", text |-> AuthorName(author_id)]

(***************************************************************************)
(* hashlib.sha1 on a message of fewer than 56 bytes (one block).           *)
(***************************************************************************)
\* bitwise operations on n-bit numbers
RECURSIVE BitXor(_, _, _)
BitXor(a, b, n) ==
  IF n = 0 THEN 0 ELSE ((a + b) % 2) + 2 * BitXor(a \div 2, b \div 2, n - 1)

RECURSIVE BitAnd(_, _, _)
BitAnd(a, b, n) ==
  IF n = 0 THEN 0 ELSE ((a % 2) * (b % 2)) + 2 * BitAnd(a \div 2, b \div 2, n - 1)

\* a 32-bit word is the pair of its high and low 16 bits
Xor32(p, q) == <<BitXor(p[1], q[1], 16), BitXor(p[2], q[2], 16)>>
And32(p, q) == <<BitAnd(p[1], q[1], 16), BitAnd(p[2], q[2], 16)>>
Not32(p) == <<65535 - p[1], 65535 - p[2]>>
Or32(p, q) == Not32(And32(Not32(p), Not32(q)))
Add32(p, q) ==
  <<(p[1] + q[1] + ((p[2] + q[2]) \div 65536)) % 65536, (p[2] + q[2]) % 65536>>

RECURSIVE Pow2(_)
Pow2(n) == IF n = 0 THEN 1 ELSE 2 * Pow2(n - 1)

\* rotate left by n < 16 bits
RotlSmall(p, n) ==
  <<((p[1] * Pow2(n)) % 65536) + (p[2] \div Pow2(16 - n)),
    ((p[2] * Pow2(n)) % 65536) + (p[1] \div Pow2(16 - n))>>

\* the 80 words of the message schedule (each step reads the last word, so
\* that the words are computed in order)
RECURSIVE Schedule(_)
Schedule(w) ==
  IF Len(w) = 80 \/ Len(w[Len(w)]) # 2 THEN w
  ELSE LET t == Len(w) + 1
       IN  Schedule(Append(w,
             RotlSmall(Xor32(Xor32(w[t - 3], w[t - 8]), Xor32(w[t - 14], w[t - 16])), 1)))

RoundF(t, b, c, d) ==
  IF t <= 20 THEN Or32(And32(b, c), And32(Not32(b), d))
  ELSE IF t <= 40 THEN Xor32(Xor32(b, c), d)
  ELSE IF t <= 60 THEN Or32(Or32(And32(b, c), And32(b, d)), And32(c, d))
  ELSE Xor32(Xor32(b, c), d)

RoundK(t) ==
  IF t <= 20 THEN <<23170, 31129>>
  ELSE IF t <= 40 THEN <<28377, 60321>>
  ELSE IF t <= 60 THEN <<36635, 48348>>
  ELSE <<51810, 49622>>

\* rounds t .. 80 from the working state s = <<a, b, c, d, e>>
RECURSIVE Rounds(_, _, _)
Rounds(w, t, s) ==
  IF t > 80 \/ Len(s[1]) # 2 THEN s
  ELSE LET temp == Add32(Add32(Add32(Add32(RotlSmall(s[1], 5), RoundF(t, s[2], s[3], s[4])), s[5]), RoundK(t)), w[t])
       IN  Rounds(w, t + 1, <<temp, s[1], RotlSmall(<<s[2][2], s[2][1]>>, 14), s[3], s[4]>>)

H0 == << <<26437, 8961>>, <<61389, 43913>>, <<39098, 56574>>, <<4146, 21622>>, <<50130, 57840>> >>

\* the digest of a message of fewer than 56 bytes: the padded 64-byte block,
\* its 16 words, the rounds
Sha1(bytes) ==
  LET b == [k \in 1..64 |->
             IF k <= Len(bytes) THEN bytes[k]
             ELSE IF k = Len(bytes) + 1 THEN 128
             ELSE IF k = 63 THEN (8 * Len(bytes)) \div 256
             ELSE IF k = 64 THEN (8 * Len(bytes)) % 256
             ELSE 0]
      w == [t \in 1..16 |-> <<256 * b[4 * t - 3] + b[4 * t - 2], 256 * b[4 * t - 1] + b[4 * t]>>]
      s == Rounds(Schedule(w), 1, H0)
  IN  [k \in 1..5 |-> Add32(H0[k], s[k])]

HexDigits == <<"0","1","2","3","4","5","6","7","8","9","a","b","c","d","e","f">>
Hex4(n) == <<HexDigits[(n \div 4096) + 1], HexDigits[((n \div 256) % 16) + 1],
             HexDigits[((n \div 16) % 16) + 1], HexDigits[(n % 16) + 1]>>

\* hashlib.sha1(s.encode("utf-8")).hexdigest() on ASCII text
Sha1Hex(s) ==
  LET hexdigest(h) ==
        Hex4(h[1][1]) \o Hex4(h[1][2]) \o Hex4(h[2][1]) \o Hex4(h[2][2]) \o Hex4(h[3][1]) \o
        Hex4(h[3][2]) \o Hex4(h[4][1]) \o Hex4(h[4][2]) \o Hex4(h[5][1]) \o Hex4(h[5][2])
  IN  hexdigest(Sha1([k \in 1..Len(s) |-> Ord(s[k])]))

\* the digests of the texts the program hashes: the ids and the titles of
\* the books, stripped; computed once
Sha1Memo ==
  [m \in {Str(i) : i \in 1..(MaxBooks + 1)} \cup {Strip(BookTitle(i)) : i \in 1..(MaxBooks + 1)}
     |-> Sha1Hex(m)]

generate_book_id(title) == Lit.calibre_navcatalog \o Sha1Memo[Strip(title)]

(***************************************************************************)
(* Escaping and encoding (services/opds.py).                               *)
(***************************************************************************)
RECURSIVE Flatten(_)
Flatten(ss) == IF ss = <<>> THEN <<>> ELSE Head(ss) \o Flatten(Tail(ss))


\* html.escape(s, quote=True)
EscapeChar(c) ==
  CASE c = "&" -> Lit.amp
    [] c = "<" -> Lit.lt
    [] c = ">" -> Lit.gt
    [] c = "\"" -> Lit.quot
    [] c = "'" -> Lit.apos
    [] OTHER -> <<c>>

\* html.escape(s, quote=False): the quotes are left as they are
xml_text_NoQuote(s) ==
  Flatten([k \in 1..Len(s) |-> IF s[k] \in {"\"", "'"} THEN <<s[k]>> ELSE EscapeChar(s[k])])

xml_text(s) == Flatten([k \in 1..Len(s) |-> EscapeChar(s[k])])


\* urllib.parse.quote_plus: letters, digits and _ . - ~ stay, a space becomes
\* +, every other byte becomes %XX
QuoteChar(c) ==
  IF IsUpper(c) \/ IsLower(c) \/ IsDigit(c) \/ c \in {"_", ".", "-", "~"} THEN <<c>>
  ELSE IF c = " " THEN <<"+">>
  ELSE <<"%", Upper(HexDigits)[(Ord(c) \div 16) + 1], Upper(HexDigits)[(Ord(c) % 16) + 1]>>

quote_plus(s) == Flatten([k \in 1..Len(s) |-> QuoteChar(s[k])])

\* urllib.parse.urlencode of a dictionary, given as its (key, value) pairs
RECURSIVE urlencode(_)
urlencode(parameters) ==
  IF parameters = <<>> THEN <<>>
  ELSE quote_plus(parameters[1].key) \o <<"=">> \o quote_plus(parameters[1].value)
       \o (IF Len(parameters) > 1 THEN <<"&">> \o urlencode(Tail(parameters)) ELSE <<>>)


MIME_BY_EXT ==
  (Lit.epub :> "application/epub+zip") @@ (Lit.pdf :> "application/pdf") @@
  (Lit.mobi :> "application/x-mobipocket-ebook") @@
  (Lit.fb2 :> "application/x-fictionbook+xml") @@ (Lit.djvu :> "image/vnd.djvu")

get_book_mime_type(extension) ==
  IF Lower(extension) \in DOMAIN MIME_BY_EXT THEN MIME_BY_EXT[Lower(extension)]
  ELSE "application/octet-stream"

(***************************************************************************)
(* The feed builder and the serializer (services/opds.py).  A document is  *)
(* the record of what the templates put in their slots: texts as the       *)
(* characters written, links as their rel, type and href attributes.       *)
(***************************************************************************)
Link(rel, type, href) == [rel |-> rel, type |-> type, href |-> href]


AtomCatalog == "application/atom+xml;profile=opds-catalog"

get_search_link == Link("search", "application/opensearchdescription+xml", Lit.opensearch)

get_start_link == Link("start", "application/atom+xml;profile=opds-catalog;kind=navigation", Lit.opds)

Now == [clock |-> "now"]
Stored(t) == [clock |-> "stored", t |-> t]

\* the dataclasses Item and Feed; an empty dictionary is the empty sequence,
\* a dictionary the sequence that holds it
Item(title, id, updated_time, links, db_id, author, files) ==
  [title |-> title, id |-> id, updated_time |-> updated_time, links |-> links,
   db_id |-> db_id, author |-> author, files |-> files]

Feed(title, id, endpoint, items, page, previous, next, parameters) ==
  [title |-> title, id |-> id, updated_time |-> Now, endpoint |-> endpoint, links |-> <<>>,
   items |-> items, page |-> page, previous |-> previous, next |-> next,
   parameters |-> parameters]

get_author_xml(author) ==
  IF author # <<>>
    THEN <<[name |-> xml_text(author[1].name), uri |-> Lit.author \o xml_text(Str(author[1].id))]>>
    ELSE <<>>

get_files_xml(book_id, files) ==
  [k \in 1..Len(files) |->
    Link("http://opds-spec.org/acquisition",
         get_book_mime_type(Lower(files[k].format)),
         Lit.book \o Str(book_id) \o Lit.file \o Lower(files[k].format))]

PageLink(rel, feed, page, query) ==
  Link(rel, AtomCatalog, feed.endpoint \o Lit.page \o Str(page) \o query)

\* create_feed_links with the query string left out of previous and next
create_feed_links_DropQuery(feed) ==
  LET query == IF feed.parameters # <<>> THEN Lit.amp \o urlencode(feed.parameters) ELSE <<>>
  IN  feed.links \o <<get_start_link, get_search_link>>
      \o <<PageLink("self", feed, feed.page, query)>>
      \o <<PageLink("first", feed, 1, query)>>
      \o (IF feed.previous THEN <<PageLink("previous", feed, feed.page - 1, <<>>)>> ELSE <<>>)
      \o (IF feed.next THEN <<PageLink("next", feed, feed.page + 1, <<>>)>> ELSE <<>>)

create_feed_links(feed) ==
  LET query == IF feed.parameters # <<>> THEN Lit.amp \o urlencode(feed.parameters) ELSE <<>>
  IN  feed.links \o <<get_start_link, get_search_link>>
      \o <<PageLink("self", feed, feed.page, query)>>
      \o <<PageLink("first", feed, 1, query)>>
      \o (IF feed.previous THEN <<PageLink("previous", feed, feed.page - 1, query)>> ELSE <<>>)
      \o (IF feed.next THEN <<PageLink("next", feed, feed.page + 1, query)>> ELSE <<>>)

Entry(title, id, author, updated, links) ==
  [title |-> title, id |-> id, author |-> author, updated |-> updated, links |-> links]

Document(title, id, links, entries) ==
  [kind |-> "feed", title |-> title, id |-> id, updated |-> Now, links |-> links,
   entries |-> entries]

generate_feed(feed) ==
  Document(
    xml_text(feed.title),
    xml_text(feed.id),
    create_feed_links(feed),
    [k \in 1..Len(feed.items) |->
      Entry(xml_text(feed.items[k].title),
            xml_text(feed.items[k].id),
            get_author_xml(feed.items[k].author),
            feed.items[k].updated_time,
            get_files_xml(feed.items[k].db_id, feed.items[k].files) \o feed.items[k].links)])

SortLink(href) ==
  Link("http://opds-spec.org/sort", "application/atom+xml;type=feed;profile=opds-catalog", href)

generate_root_feed(endpoint) ==
  generate_feed(
    Feed(Lit.catalog_title, Lit.urn_main, endpoint,
         <<Item(Lit.By_Newest, Lit.urn_by_newest \o <<":">>, Now, <<SortLink(Lit.by_newest)>>, 0 - 1, <<>>, <<>>),
           Item(Lit.By_Title, Lit.urn_by_title \o <<":">>, Now, <<SortLink(Lit.by_title)>>, 0 - 1, <<>>, <<>>),
           Item(Lit.By_Author, Lit.urn_by_author \o <<":">>, Now, <<SortLink(Lit.by_author)>>, 0 - 1, <<>>, <<>>)>>,
         1, FALSE, FALSE, <<>>))

\* items_from_books with the id derived from the title, as the parameter
\* name of generate_book_id suggests
items_from_books_ByTitle(books) ==
  IF \E k \in 1..Len(books) : books[k].authors = <<>> THEN IndexError
  ELSE [kind |-> "items",
        items |-> [k \in 1..Len(books) |->
          Item(books[k].title,
               generate_book_id(books[k].title),
               Stored(books[k].last_modified),
               <<Link("http://opds-spec.org/image", "image/jpeg",
                      Lit.book \o Str(books[k].id) \o Lit.cover)>>,
               books[k].id,
               <<books[k].authors[1]>>,
               books[k].files)]]

\* items_from_books: book["authors"][0] raises IndexError on an empty list
items_from_books(books) ==
  IF \E k \in 1..Len(books) : books[k].authors = <<>> THEN IndexError
  ELSE [kind |-> "items",
        items |-> [k \in 1..Len(books) |->
          Item(books[k].title,
               generate_book_id(Str(books[k].id)),
               Stored(books[k].last_modified),
               <<Link("http://opds-spec.org/image", "image/jpeg",
                      Lit.book \o Str(books[k].id) \o Lit.cover)>>,
               books[k].id,
               <<books[k].authors[1]>>,
               books[k].files)]]

(***************************************************************************)
(* The feeds.  Each generate_*_feed function is its repository call        *)
(* followed by the statements that build the document from what the call   *)
(* returned; the second part is the operator named ..._from.               *)
(***************************************************************************)
generate_newest_feed_from(endpoint, page, r) ==
  IF IsRaise(r) THEN r
  ELSE IF IsRaise(items_from_books(r.rows)) THEN items_from_books(r.rows)
  ELSE generate_feed(
         Feed(Lit.catalog_title, Lit.urn_by_newest, endpoint, items_from_books(r.rows).items,
              page, r.has_previous, r.has_next, <<>>))

generate_title_feed_from(endpoint, page, r) ==
  IF IsRaise(r) THEN r
  ELSE IF IsRaise(items_from_books(r.rows)) THEN items_from_books(r.rows)
  ELSE generate_feed(
         Feed(Lit.catalog_title, Lit.urn_by_title, endpoint, items_from_books(r.rows).items,
              page, r.has_previous, r.has_next, <<>>))

\* author_name is what get_author_name returns or raises; it is called after
\* the items are built
generate_author_feed_from(endpoint, author_id, page, r, author_name) ==
  IF IsRaise(r) THEN r
  ELSE IF IsRaise(items_from_books(r.rows)) THEN items_from_books(r.rows)
  ELSE IF IsRaise(author_name) THEN author_name
  ELSE generate_feed(
         Feed(Lit.books_by \o author_name.text, Lit.urn_author \o Str(author_id), endpoint,
              items_from_books(r.rows).items, page, r.has_previous, r.has_next, <<>>))

generate_book_search_feed_from(endpoint, query, page, r) ==
  IF IsRaise(r) THEN r
  ELSE IF IsRaise(items_from_books(r.rows)) THEN items_from_books(r.rows)
  ELSE generate_feed(
         Feed(Lit.search_results \o query \o <<"'">>, Lit.urn_search \o query, endpoint,
              items_from_books(r.rows).items, page, r.has_previous, r.has_next,
              <<[key |-> Lit.q, value |-> query]>>))


\* the authors list is written by its own template, with no Feed object
generate_by_author_feed_from(page, r) ==
  IF IsRaise(r) THEN r
  ELSE Document(
         Lit.By_Authors,
         Lit.urn_by_author,
         <<Link("self", AtomCatalog, Lit.by_author \o Lit.page \o Str(page))>>
           \o <<Link("first", AtomCatalog, Lit.by_author \o Lit.page \o Str(1))>>
           \o (IF r.has_previous
                 THEN <<Link("previous", AtomCatalog, Lit.by_author \o Lit.page \o Str(page - 1))>>
                 ELSE <<>>)
           \o (IF r.has_next
                 THEN <<Link("next", AtomCatalog, Lit.by_author \o Lit.page \o Str(page + 1))>>
                 ELSE <<>>),
         [k \in 1..Len(r.rows) |->
           Entry(xml_text(r.rows[k].name),
                 Lit.urn_author \o xml_text(Str(r.rows[k].id)),
                 <<[name |-> Lit.server_name, uri |-> <<>>]>>,
                 Now,
                 <<Link("", AtomCatalog, Lit.author \o Str(r.rows[k].id))>>)])

(***************************************************************************)
(* Calls.  Python binds the arguments of a call to the parameters of the   *)
(* function called and raises TypeError when they do not fit: too many     *)
(* positional arguments, a keyword that names no parameter or one already  *)
(* given, a parameter without default left unbound.  Values carry their    *)
(* type, as arithmetic raises TypeError on an operand of the wrong type.   *)
(***************************************************************************)
IntV(n) == [t |-> "int", v |-> n]
StrV(s) == [t |-> "str", v |-> s]

\* core/config.py: class Config
ConfigV == [t |-> "Config", v |-> [opds_prefix |-> Lit.opds, page_size |-> 30]]

\* the parameters of each function, and the default values of those that
\* have one
Params(f) ==
  CASE f = "get_books" -> <<"sort", "page", "limit">>
    [] f = "get_authors" -> <<"page", "limit">>
    [] f = "get_author_books" -> <<"author_id", "page", "limit">>
    [] f = "search_books" -> <<"query", "page", "limit">>
    [] f = "get_author_name" -> <<"author_id">>
    [] f = "generate_root_feed" -> <<"endpoint">>
    [] f = "generate_newest_feed" -> <<"endpoint", "page", "config">>
    [] f = "generate_title_feed" -> <<"endpoint", "page", "config">>
    [] f = "generate_by_author_feed" -> <<"param", "page", "config">>
    [] f = "generate_author_feed" -> <<"endpoint", "author_id", "page", "config">>
    [] f = "generate_book_search_feed" -> <<"endpoint", "query", "page", "config">>

Defaults(f) ==
  IF f \in {"get_books", "get_authors", "get_author_books", "search_books"}
    THEN [limit |-> IntV(10)]
    ELSE <<>>

\* the call f(*pos, **kw): the parameters bound, or TypeError
Bind(f, pos, kw) ==
  LET names == Params(f)
      given == {names[k] : k \in 1..Min(Len(pos), Len(names))}
  IN  IF \/ Len(pos) > Len(names)
         \/ \E n \in DOMAIN kw : n \notin SeqToSet(names) \/ n \in given
         \/ \E k \in 1..Len(names) :
              names[k] \notin given \cup DOMAIN kw \cup DOMAIN Defaults(f)
        THEN TypeError
        ELSE [kind |-> "args",
              a |-> [n \in SeqToSet(names) |->
                      IF n \in given THEN pos[CHOOSE k \in 1..Len(names) : names[k] = n]
                      ELSE IF n \in DOMAIN kw THEN kw[n]
                      ELSE Defaults(f)[n]]]


\* the repository functions on bound arguments; page and limit enter the
\* arithmetic of the query
Apply_get_books(st, a) ==
  IF a.sort.v \in {"by_title", "by_newest"} /\ IsRaise(connect_db(st)) THEN connect_db(st)
  ELSE IF a.sort.v \in {"by_title", "by_newest"} /\ (a.page.t # "int" \/ a.limit.t # "int")
    THEN TypeError
  ELSE get_books(st, a.sort.v, a.page.v, a.limit.v)

Apply_get_authors(st, a) ==
  IF IsRaise(connect_db(st)) THEN connect_db(st)
  ELSE IF a.page.t # "int" \/ a.limit.t # "int" THEN TypeError
  ELSE get_authors(st, a.page.v, a.limit.v)

Apply_get_author_books(st, a) ==
  IF IsRaise(connect_db(st)) THEN connect_db(st)
  ELSE IF a.page.t # "int" \/ a.limit.t # "int" THEN TypeError
  ELSE get_author_books(st, a.author_id.v, a.page.v, a.limit.v)

Apply_search_books(st, a) ==
  IF IsRaise(connect_db(st)) THEN connect_db(st)
  ELSE IF a.page.t # "int" \/ a.limit.t # "int" THEN TypeError
  ELSE search_books(st, a.query.v, a.page.v, a.limit.v)

\* the feed builder's functions on bound arguments
generate_newest_feed(st, a) ==
  LET call == Bind("get_books", <<>>, [sort |-> StrV("by_newest"), page |-> a.page, config |-> a.config])
  IN  IF IsRaise(call) THEN call
      ELSE generate_newest_feed_from(a.endpoint.v, a.page.v, Apply_get_books(st, call.a))

generate_title_feed(st, a) ==
  LET call == Bind("get_books", <<>>, [sort |-> StrV("by_title"), page |-> a.page, config |-> a.config])
  IN  IF IsRaise(call) THEN call
      ELSE generate_title_feed_from(a.endpoint.v, a.page.v, Apply_get_books(st, call.a))

generate_by_author_feed(st, a) ==
  LET call == Bind("get_authors", <<a.page, a.config>>, <<>>)
  IN  IF IsRaise(call) THEN call
      ELSE generate_by_author_feed_from(a.page.v, Apply_get_authors(st, call.a))

generate_author_feed(st, a) ==
  LET call == Bind("get_author_books", <<a.author_id>>, [page |-> a.page, config |-> a.config])
      name == Bind("get_author_name", <<a.author_id, a.config>>, <<>>)
  IN  IF IsRaise(call) THEN call
      ELSE generate_author_feed_from(a.endpoint.v, a.author_id.v, a.page.v,
             Apply_get_author_books(st, call.a),
             IF IsRaise(name) THEN name ELSE get_author_name(st, name.a.author_id.v))

generate_book_search_feed(st, a) ==
  LET call == Bind("search_books", <<a.query, a.page>>, [config |-> a.config])
  IN  IF IsRaise(call) THEN call
      ELSE generate_book_search_feed_from(a.endpoint.v, a.query.v, a.page.v,
             Apply_search_books(st, call.a))

(***************************************************************************)
(* The application (main.py) and its routes (api/catalog.py).              *)
(***************************************************************************)
Response(status_code, media_type, body) ==
  [kind |-> "response", status_code |-> status_code, media_type |-> media_type, body |-> body]

AtomXml == "application/atom+xml; charset=utf-8"

\* http_exception_handler and general_exception_handler; a value returned
\* is the content of the feed response
Respond(r) ==
  IF r.kind = "HTTPException" THEN Response(r.status_code, "text/plain; charset=utf-8", r.detail)
  ELSE IF IsRaise(r)
    THEN Response(500, "text/plain; charset=utf-8", Detail("Internal Server Error", 0, <<>>))
  ELSE Response(200, AtomXml, r)

\* Query(1, ge=1): FastAPI answers 422 to a page below 1
Unprocessable == Response(422, "application/json", Detail("validation error", 0, <<>>))

root_main(st) ==
  LET call == Bind("generate_root_feed", <<StrV(Lit.opds)>>, <<>>)
  IN  Respond(IF IsRaise(call) THEN call ELSE generate_root_feed(call.a.endpoint.v))

root_by_newest(st, page) ==
  LET call == Bind("generate_newest_feed", <<StrV(Lit.by_newest), IntV(page)>>, <<>>)
  IN  IF page < 1 THEN Unprocessable
      ELSE Respond(IF IsRaise(call) THEN call ELSE generate_newest_feed(st, call.a))

root_by_title(st, page) ==
  LET call == Bind("generate_title_feed", <<StrV(Lit.by_title), IntV(page)>>, <<>>)
  IN  IF page < 1 THEN Unprocessable
      ELSE Respond(IF IsRaise(call) THEN call ELSE generate_title_feed(st, call.a))

route_get_author_books(st, author_id, page) ==
  LET call == Bind("generate_author_feed",
                   <<StrV(Lit.author \o Str(author_id)), IntV(author_id), IntV(page)>>, <<>>)
  IN  IF page < 1 THEN Unprocessable
      ELSE Respond(IF IsRaise(call) THEN call ELSE generate_author_feed(st, call.a))

search(st, q, page) ==
  LET call == Bind("generate_book_search_feed", <<StrV(Lit.search), StrV(q), IntV(page)>>, <<>>)
  IN  IF page < 1 THEN Unprocessable
      ELSE Respond(IF IsRaise(call) THEN call ELSE generate_book_search_feed(st, call.a))

\* download_book: the path, then the title, then the FileResponse
download_book(st, book_id, file_format) ==
  LET path == get_book_file_path(st, book_id, Upper(file_format))
      title == get_book_title(st, book_id)
  IN  IF IsRaise(path) THEN Respond(path)
      ELSE IF IsRaise(title) THEN Respond(title)
      ELSE Response(200, get_book_mime_type(Upper(file_format)), path)

(***************************************************************************)
(* The client: what a reader of a document gets from it.  An XML parser    *)
(* unescapes character data and attribute values; following a link is      *)
(* requesting the path of its href with the parameters of its query        *)
(* string.                                                                 *)
(***************************************************************************)
\* the text an XML parser reads from well-formed character data
RECURSIVE XmlUnescape(_)
XmlUnescape(s) ==
  IF s = <<>> THEN <<>>
  ELSE IF StartsWith(s, <<"&", "a", "m", "p", ";">>) THEN <<"&">> \o XmlUnescape(SubSeq(s, 6, Len(s)))
  ELSE IF StartsWith(s, <<"&", "l", "t", ";">>) THEN <<"<">> \o XmlUnescape(SubSeq(s, 5, Len(s)))
  ELSE IF StartsWith(s, <<"&", "g", "t", ";">>) THEN <<">">> \o XmlUnescape(SubSeq(s, 5, Len(s)))
  ELSE IF StartsWith(s, <<"&", "q", "u", "o", "t", ";">>) THEN <<"\"">> \o XmlUnescape(SubSeq(s, 7, Len(s)))
  ELSE IF StartsWith(s, <<"&", "#", "x", "2", "7", ";">>) THEN <<"'">> \o XmlUnescape(SubSeq(s, 7, Len(s)))
  ELSE <<s[1]>> \o XmlUnescape(Tail(s))

\* the first position of character c in s, or 0
IndexOf(s, c) ==
  IF \E k \in 1..Len(s) : s[k] = c THEN CHOOSE k \in 1..Len(s) : s[k] = c /\ \A j \in 1..(k - 1) : s[j] # c
  ELSE 0

\* s cut at every c
RECURSIVE Split(_, _)
Split(s, c) ==
  IF IndexOf(s, c) = 0 THEN <<s>>
  ELSE <<SubSeq(s, 1, IndexOf(s, c) - 1)>> \o Split(SubSeq(s, IndexOf(s, c) + 1, Len(s)), c)

HexValue(c) == IF IsDigit(c) THEN Ord(c) - 48 ELSE Ord(UpperChar(c)) - 55

\* urllib.parse.unquote_plus
RECURSIVE UnquotePlus(_)
UnquotePlus(s) ==
  IF s = <<>> THEN <<>>
  ELSE IF s[1] = "+" THEN <<" ">> \o UnquotePlus(Tail(s))
  ELSE IF s[1] = "%" /\ Len(s) >= 3
    THEN <<Chr(16 * HexValue(s[2]) + HexValue(s[3]))>> \o UnquotePlus(SubSeq(s, 4, Len(s)))
  ELSE <<s[1]>> \o UnquotePlus(Tail(s))

\* the path of an href attribute, and the decoded values its query string
\* gives to key
HrefPath(href) ==
  LET u == XmlUnescape(href)
  IN  IF IndexOf(u, "?") = 0 THEN u ELSE SubSeq(u, 1, IndexOf(u, "?") - 1)

HrefParam(href, key) ==
  LET u == XmlUnescape(href)
      pairs == IF IndexOf(u, "?") = 0 THEN <<>> ELSE Split(SubSeq(u, IndexOf(u, "?") + 1, Len(u)), "&")
      mine == SelectSeq(pairs, LAMBDA kv : StartsWith(kv, key \o <<"=">>))
  IN  [k \in 1..Len(mine) |-> UnquotePlus(SubSeq(mine[k], Len(key) + 2, Len(mine[k])))]

LinksOf(doc, rel) == SelectSeq(doc.links, LAMBDA l : l.rel = rel)

\* the number a query parameter of digits stands for (page: int)
RECURSIVE StrToNat(_)
StrToNat(s) ==
  IF s = <<>> THEN 0 ELSE 10 * StrToNat(SubSeq(s, 1, Len(s) - 1)) + (Ord(s[Len(s)]) - 48)

(***************************************************************************)
(* Routing.  The router of api/catalog.py declares its paths; create_app   *)
(* mounts it under the configured prefix next to the service endpoints and *)
(* the documentation routes FastAPI adds.  A request goes to the handler   *)
(* of the route its path matches, and is answered 404 when none does.      *)
(***************************************************************************)
RouterPaths ==
  { <<"/", "o", "p", "d", "s", "/", "b", "o", "o", "k", "/", "{", "b", "o", "o", "k", "_", "i", "d", "}", "/", "f", "i", "l", "e", "/", "{", "f", "i", "l", "e", "_", "f", "o", "r", "m", "a", "t", "}">>,
    <<"/", "o", "p", "d", "s", "/", "b", "o", "o", "k", "/", "{", "b", "o", "o", "k", "_", "i", "d", "}", "/", "c", "o", "v", "e", "r">>,
    <<"/", "o", "p", "d", "s", "/", "o", "p", "e", "n", "s", "e", "a", "r", "c", "h", ".", "x", "m", "l">>,
    <<"/", "o", "p", "d", "s", "/", "s", "e", "a", "r", "c", "h">>,
    <<"/", "o", "p", "d", "s">>,
    <<"/", "o", "p", "d", "s", "/", "b", "y", "-", "n", "e", "w", "e", "s", "t">>,
    <<"/", "o", "p", "d", "s", "/", "b", "y", "-", "t", "i", "t", "l", "e">>,
    <<"/", "o", "p", "d", "s", "/", "a", "u", "t", "h", "o", "r", "/", "{", "a", "u", "t", "h", "o", "r", "_", "i", "d", "}">> }

create_app(config) ==
  {config.v.opds_prefix \o p : p \in RouterPaths}
    \cup { <<"/">>,
           <<"/", "h", "e", "a", "l", "t", "h", "z">>,
           <<"/", "r", "e", "a", "d", "y">>,
           <<"/", "o", "p", "e", "n", "a", "p", "i", ".", "j", "s", "o", "n">>,
           <<"/", "d", "o", "c", "s">>,
           <<"/", "d", "o", "c", "s", "/", "o", "a", "u", "t", "h", "2", "-", "r", "e", "d", "i", "r", "e", "c", "t">>,
           <<"/", "r", "e", "d", "o", "c">> }

\* a path matches a route segment by segment; a parameter of the route
\* takes any segment that is not empty
Matches(route, path) ==
  \E rs \in {Split(route, "/")}, ps \in {Split(path, "/")} :
    /\ Len(rs) = Len(ps)
    /\ \A k \in 1..Len(rs) :
         \/ rs[k] = ps[k]
         \/ rs[k] # <<>> /\ rs[k][1] = "{" /\ ps[k] # <<>>

IsNumber(s) == s # <<>> /\ \A k \in 1..Len(s) : IsDigit(s[k])

\* the application on a request for href (path and query string, as written
\* in the attribute the client read it from): the request line is parsed, and
\* the route the path matches is served.  A cover exists for the books of odd
\* id.
app(st, href) ==
  LET Serve(path, seg, pages, q) ==
        LET page == IF pages = <<>> THEN 1 ELSE StrToNat(pages[1])
            BadPage == pages # <<>> /\ ~IsNumber(pages[1])
            At(route) == Matches(ConfigV.v.opds_prefix \o route, path)
            Text(body) == Response(200, "text/plain; charset=utf-8", body)
        IN  IF \A r \in create_app(ConfigV) : ~Matches(r, path)
              THEN Response(404, "application/json", Detail("Not Found", 0, <<>>))
            ELSE IF path = <<"/">>
              THEN Response(307, "", [kind |-> "redirect", location |-> ConfigV.v.opds_prefix])
            ELSE IF path = <<"/", "h", "e", "a", "l", "t", "h", "z">> THEN Text([kind |-> "text", text |-> <<"o", "k">>])
            ELSE IF path = <<"/", "r", "e", "a", "d", "y">>
              THEN IF IsRaise(connect_db(st)) THEN Respond(connect_db(st))
                   ELSE Text([kind |-> "text", text |-> <<"o", "k">>])
            ELSE IF At(<<"/", "o", "p", "d", "s">>) THEN root_main(st)
            ELSE IF At(<<"/", "o", "p", "d", "s", "/", "o", "p", "e", "n", "s", "e", "a", "r", "c", "h", ".", "x", "m", "l">>)
              THEN Response(200, "application/opensearchdescription+xml; charset=utf-8",
                            [kind |-> "osd", template |-> <<"/", "o", "p", "d", "s", "/", "s", "e", "a", "r", "c", "h", "?", "q", "=", "{", "s", "e", "a", "r", "c", "h", "T", "e", "r", "m", "s", "}">>])
            ELSE IF At(<<"/", "o", "p", "d", "s", "/", "b", "y", "-", "n", "e", "w", "e", "s", "t">>)
              THEN IF BadPage THEN Unprocessable ELSE root_by_newest(st, page)
            ELSE IF At(<<"/", "o", "p", "d", "s", "/", "b", "y", "-", "t", "i", "t", "l", "e">>)
              THEN IF BadPage THEN Unprocessable ELSE root_by_title(st, page)
            ELSE IF At(<<"/", "o", "p", "d", "s", "/", "s", "e", "a", "r", "c", "h">>)
              THEN IF BadPage \/ q = <<>> THEN Unprocessable ELSE search(st, q[1], page)
            ELSE IF At(<<"/", "o", "p", "d", "s", "/", "a", "u", "t", "h", "o", "r", "/", "{", "a", "u", "t", "h", "o", "r", "_", "i", "d", "}">>)
              THEN IF BadPage \/ ~IsNumber(seg[Len(seg)]) THEN Unprocessable
                   ELSE route_get_author_books(st, StrToNat(seg[Len(seg)]), page)
            ELSE IF At(<<"/", "o", "p", "d", "s", "/", "b", "o", "o", "k", "/", "{", "b", "o", "o", "k", "_", "i", "d", "}", "/", "c", "o", "v", "e", "r">>)
              THEN IF ~IsNumber(seg[Len(seg) - 1]) THEN Unprocessable
                   ELSE IF IsRaise(connect_db(st)) THEN Respond(connect_db(st))
                   ELSE IF StrToNat(seg[Len(seg) - 1]) \notin st.books
                     THEN Respond(HTTPException(404, Detail("Book not found", 0, <<>>)))
                   ELSE IF StrToNat(seg[Len(seg) - 1]) % 2 = 0
                     THEN Respond(HTTPException(404, Detail("Cover not found", 0, <<>>)))
                   ELSE Response(200, "image/jpeg",
                                 [kind |-> "path",
                                  path |-> DbDir \o BookPath(StrToNat(seg[Len(seg) - 1])) \o <<"/", "c", "o", "v", "e", "r", ".", "j", "p", "g">>])
            ELSE IF At(<<"/", "o", "p", "d", "s", "/", "b", "o", "o", "k", "/", "{", "b", "o", "o", "k", "_", "i", "d", "}", "/", "f", "i", "l", "e", "/", "{", "f", "i", "l", "e", "_", "f", "o", "r", "m", "a", "t", "}">>)
              THEN IF ~IsNumber(seg[Len(seg) - 2]) THEN Unprocessable
                   ELSE download_book(st, StrToNat(seg[Len(seg) - 2]), seg[Len(seg)])
            ELSE Response(200, "text/html; charset=utf-8", [kind |-> "docs"])
  IN  Serve(HrefPath(href), Split(HrefPath(href), "/"),
            HrefParam(href, <<"p", "a", "g", "e">>), HrefParam(href, Lit.q))

(***************************************************************************)
(* The state machine: the store is fixed when the server starts.  The      *)
(* server is idle or has completed one call; op is the call's name and     *)
(* arguments, out what it returned or raised.  Calls share no state, so    *)
(* the next call starts from the idle server.                              *)
(***************************************************************************)

Op(name, sort, page, limit, id, text) ==
  [name |-> name, sort |-> sort, page |-> page, limit |-> limit, id |-> id, text |-> text]

Pages == 1..MaxPage
Limits == 1..MaxLimit
SortKeys == {"by_title", "by_newest", "by_author"}

Terms ==
  { <<>>, <<"d", "u", "n", "e">>, <<"D", "U", "N", "E">>, <<"D", "u", "n", "e">>,
    <<"u">>, <<"_">>, <<"%">>, <<"a", "_", "b">>, <<"<">>, <<"E", " ", "2">> }

Idle == Op("idle", "", 0, 0, 0, <<>>)
None == [kind |-> "none"]

\* no client is following links
NoWalk == [on |-> FALSE, seen |-> <<>>, steps |-> 0]

Init ==
  /\ store \in Stores
  /\ op = Idle
  /\ out = None
  /\ walk = NoWalk

CallGetBooks ==
  \E sort \in SortKeys, page \in Pages, limit \in Limits :
    /\ op = Idle
    /\ op' = Op("get_books", sort, page, limit, 0, <<>>)
    /\ out' = get_books(store, sort, page, limit)
    /\ UNCHANGED <<store, walk>>

CallGetAuthors ==
  \E page \in Pages, limit \in Limits :
    /\ op = Idle
    /\ op' = Op("get_authors", "", page, limit, 0, <<>>)
    /\ out' = get_authors(store, page, limit)
    /\ UNCHANGED <<store, walk>>

CallGetAuthorBooks ==
  \E author_id \in 1..(MaxAuthors + 1), page \in Pages, limit \in Limits :
    /\ op = Idle
    /\ op' = Op("get_author_books", "", page, limit, author_id, <<>>)
    /\ out' = get_author_books(store, author_id, page, limit)
    /\ UNCHANGED <<store, walk>>

CallSearchBooks ==
  \E query \in Terms, page \in Pages, limit \in Limits :
    /\ op = Idle
    /\ op' = Op("search_books", "", page, limit, 0, query)
    /\ out' = search_books(store, query, page, limit)
    /\ UNCHANGED <<store, walk>>

Formats ==
  { <<"E", "P", "U", "B">>, <<"e", "p", "u", "b">>, <<"E", "p", "u", "b">>,
    <<"p", "d", "f">>, <<"a", "z", "w", "3">>, <<"m", "o", "b", "i">>,
    <<" ", "p", "d", "f", " ">> }

CallGetBookFilePath ==
  \E book_id \in 1..(MaxBooks + 1), book_format \in Formats :
    /\ op = Idle
    /\ op' = Op("get_book_file_path", "", 0, 0, book_id, book_format)
    /\ out' = get_book_file_path(store, book_id, book_format)
    /\ UNCHANGED <<store, walk>>

Extensions ==
  { <<"e", "p", "u", "b">>, <<"E", "P", "U", "B">>, <<"P", "d", "f">>, <<"m", "o", "b", "i">>,
    <<"f", "b", "2">>, <<"d", "j", "v", "u">>, <<"a", "z", "w", "3">>, <<"A", "Z", "W">>,
    <<"c", "b", "z">>, <<"c", "b", "r">>, <<"t", "x", "t">>, <<"R", "T", "F">>,
    <<"x", "y", "z">>, <<>> }

CallGetBookMimeType ==
  \E extension \in Extensions :
    /\ op = Idle
    /\ op' = Op("get_book_mime_type", "", 0, 0, 0, extension)
    /\ out' = [kind |-> "mime", type |-> get_book_mime_type(extension)]
    /\ UNCHANGED <<store, walk>>

CallGenerateRootFeed ==
  /\ op = Idle
  /\ op' = Op("generate_root_feed", "", 1, 0, 0, <<>>)
  /\ out' = generate_root_feed(Lit.opds)
  /\ UNCHANGED <<store, walk>>

\* the documents the feed builder writes from what the repository returns
\* for a page of limit rows
NewestFeedFrom ==
  \E page \in Pages, limit \in Limits :
    /\ op = Idle
    /\ op' = Op("generate_newest_feed_from", "by_newest", page, limit, 0, <<>>)
    /\ out' = generate_newest_feed_from(Lit.by_newest, page, get_books(store, "by_newest", page, limit))
    /\ UNCHANGED <<store, walk>>

TitleFeedFrom ==
  \E page \in Pages, limit \in Limits :
    /\ op = Idle
    /\ op' = Op("generate_title_feed_from", "by_title", page, limit, 0, <<>>)
    /\ out' = generate_title_feed_from(Lit.by_title, page, get_books(store, "by_title", page, limit))
    /\ UNCHANGED <<store, walk>>

AuthorFeedFrom ==
  \E author_id \in 1..(MaxAuthors + 1), page \in Pages, limit \in Limits :
    /\ op = Idle
    /\ op' = Op("generate_author_feed_from", "", page, limit, author_id, <<>>)
    /\ out' = generate_author_feed_from(Lit.author \o Str(author_id), author_id, page,
                get_author_books(store, author_id, page, limit),
                get_author_name(store, author_id))
    /\ UNCHANGED <<store, walk>>

SearchFeedFrom ==
  \E query \in Terms, page \in Pages, limit \in Limits :
    /\ op = Idle
    /\ op' = Op("generate_book_search_feed_from", "", page, limit, 0, query)
    /\ out' = generate_book_search_feed_from(Lit.search, query, page,
                search_books(store, query, page, limit))
    /\ UNCHANGED <<store, walk>>

ByAuthorFeedFrom ==
  \E page \in Pages, limit \in Limits :
    /\ op = Idle
    /\ op' = Op("generate_by_author_feed_from", "", page, limit, 0, <<>>)
    /\ out' = generate_by_author_feed_from(page, get_authors(store, page, limit))
    /\ UNCHANGED <<store, walk>>

\* the feed builder's functions, called with the arguments their signatures
\* name
CallGenerateNewestFeed ==
  \E page \in Pages :
    /\ op = Idle
    /\ op' = Op("generate_newest_feed", "by_newest", page, 0, 0, <<>>)
    /\ out' = generate_newest_feed(store,
                Bind("generate_newest_feed", <<StrV(Lit.by_newest), IntV(page), ConfigV>>, <<>>).a)
    /\ UNCHANGED <<store, walk>>

CallGenerateTitleFeed ==
  \E page \in Pages :
    /\ op = Idle
    /\ op' = Op("generate_title_feed", "by_title", page, 0, 0, <<>>)
    /\ out' = generate_title_feed(store,
                Bind("generate_title_feed", <<StrV(Lit.by_title), IntV(page), ConfigV>>, <<>>).a)
    /\ UNCHANGED <<store, walk>>

CallGenerateByAuthorFeed ==
  \E page \in Pages :
    /\ op = Idle
    /\ op' = Op("generate_by_author_feed", "", page, 0, 0, <<>>)
    /\ out' = generate_by_author_feed(store,
                Bind("generate_by_author_feed", <<StrV(Lit.by_author), IntV(page), ConfigV>>, <<>>).a)
    /\ UNCHANGED <<store, walk>>

CallGenerateAuthorFeed ==
  \E author_id \in 1..(MaxAuthors + 1), page \in Pages :
    /\ op = Idle
    /\ op' = Op("generate_author_feed", "", page, 0, author_id, <<>>)
    /\ out' = generate_author_feed(store,
                Bind("generate_author_feed",
                     <<StrV(Lit.author \o Str(author_id)), IntV(author_id), IntV(page), ConfigV>>,
                     <<>>).a)
    /\ UNCHANGED <<store, walk>>

CallGenerateBookSearchFeed ==
  \E query \in Terms, page \in Pages :
    /\ op = Idle
    /\ op' = Op("generate_book_search_feed", "", page, 0, 0, query)
    /\ out' = generate_book_search_feed(store,
                Bind("generate_book_search_feed",
                     <<StrV(Lit.search), StrV(query), IntV(page), ConfigV>>, <<>>).a)
    /\ UNCHANGED <<store, walk>>

\* the requests
GetRoot ==
  /\ op = Idle
  /\ op' = Op("GET /opds", "", 1, 0, 0, <<>>)
  /\ out' = root_main(store)
  /\ UNCHANGED <<store, walk>>

GetByNewest ==
  \E page \in 0..MaxPage :
    /\ op = Idle
    /\ op' = Op("GET /opds/by-newest", "", page, 0, 0, <<>>)
    /\ out' = root_by_newest(store, page)
    /\ UNCHANGED <<store, walk>>

GetByTitle ==
  \E page \in 0..MaxPage :
    /\ op = Idle
    /\ op' = Op("GET /opds/by-title", "", page, 0, 0, <<>>)
    /\ out' = root_by_title(store, page)
    /\ UNCHANGED <<store, walk>>

GetAuthor ==
  \E author_id \in 1..(MaxAuthors + 1), page \in 0..MaxPage :
    /\ op = Idle
    /\ op' = Op("GET /opds/author/{author_id}", "", page, 0, author_id, <<>>)
    /\ out' = route_get_author_books(store, author_id, page)
    /\ UNCHANGED <<store, walk>>

GetSearch ==
  \E q \in Terms, page \in 0..MaxPage :
    /\ op = Idle
    /\ op' = Op("GET /opds/search", "", page, 0, 0, q)
    /\ out' = search(store, q, page)
    /\ UNCHANGED <<store, walk>>

GetBookFile ==
  \E book_id \in 1..(MaxBooks + 1), file_format \in Formats :
    /\ op = Idle
    /\ op' = Op("GET /opds/book/{book_id}/file/{file_format}", "", 0, 0, book_id, file_format)
    /\ out' = download_book(store, book_id, file_format)
    /\ UNCHANGED <<store, walk>>

\* the document the feed builder writes for the call o, from what the
\* repository returns for o's page of o.limit rows
FeedFrom(o) ==
  CASE o.name = "generate_newest_feed_from" ->
         generate_newest_feed_from(Lit.by_newest, o.page, get_books(store, "by_newest", o.page, o.limit))
    [] o.name = "generate_title_feed_from" ->
         generate_title_feed_from(Lit.by_title, o.page, get_books(store, "by_title", o.page, o.limit))
    [] o.name = "generate_author_feed_from" ->
         generate_author_feed_from(Lit.author \o Str(o.id), o.id, o.page,
           get_author_books(store, o.id, o.page, o.limit), get_author_name(store, o.id))
    [] o.name = "generate_book_search_feed_from" ->
         generate_book_search_feed_from(Lit.search, o.text, o.page,
           search_books(store, o.text, o.page, o.limit))

\* a client takes the first page of a listing of books as the start of a
\* walk along its next links (page defaults to 1)
ClientStart ==
  /\ op.name \in {"generate_newest_feed_from", "generate_title_feed_from",
                  "generate_author_feed_from", "generate_book_search_feed_from"}
  /\ op.page = 1
  /\ ~walk.on
  /\ walk' = [on |-> TRUE,
              seen |-> IF out.kind # "feed" THEN <<>>
                       ELSE [k \in 1..Len(out.entries) |-> out.entries[k].id],
              steps |-> 1]
  /\ UNCHANGED <<store, op, out>>

\* the client follows the next link of the document it holds: the page and
\* the search term of the request are those of the link's query string
FollowNext ==
  /\ walk.on
  /\ out.kind = "feed"
  /\ LinksOf(out, "next") # <<>>
  /\ walk.steps <= MaxBooks + 1
  /\ \E href \in {LinksOf(out, "next")[1].href} :
       \E page \in {HrefParam(href, <<"p", "a", "g", "e">>)}, q \in {HrefParam(href, Lit.q)} :
         \E o \in {[op EXCEPT !.page = IF page = <<>> THEN 1 ELSE StrToNat(page[1]),
                              !.text = IF q = <<>> THEN <<>> ELSE q[1]]} :
           \E doc \in {FeedFrom(o)} :
             /\ op' = o
             /\ out' = doc
             /\ walk' = [on |-> TRUE,
                         seen |-> walk.seen \o
                           (IF doc.kind # "feed" THEN <<>>
                            ELSE [k \in 1..Len(doc.entries) |-> doc.entries[k].id]),
                         steps |-> walk.steps + 1]
  /\ UNCHANGED store

\* a client asks the application for an address of its own choosing
Request ==
  \E href \in
      { <<"/">>,
      <<"/", "h", "e", "a", "l", "t", "h", "z">>,
      <<"/", "r", "e", "a", "d", "y">>,
      <<"/", "o", "p", "d", "s">>,
      <<"/", "o", "p", "d", "s", "/", "o", "p", "d", "s">>,
      <<"/", "o", "p", "d", "s", "/", "o", "p", "d", "s", "/", "b", "y", "-", "n", "e", "w", "e", "s", "t", "?", "p", "a", "g", "e", "=", "2">>,
      <<"/", "o", "p", "d", "s", "/", "o", "p", "d", "s", "/", "b", "y", "-", "t", "i", "t", "l", "e">>,
      <<"/", "o", "p", "d", "s", "/", "o", "p", "d", "s", "/", "b", "y", "-", "t", "i", "t", "l", "e", "?", "p", "a", "g", "e", "=", "x">>,
      <<"/", "o", "p", "d", "s", "/", "o", "p", "d", "s", "/", "a", "u", "t", "h", "o", "r", "/", "1">>,
      <<"/", "o", "p", "d", "s", "/", "o", "p", "d", "s", "/", "s", "e", "a", "r", "c", "h">>,
      <<"/", "o", "p", "d", "s", "/", "o", "p", "d", "s", "/", "s", "e", "a", "r", "c", "h", "?", "q", "=", "d", "u", "n", "e", "&", "p", "a", "g", "e", "=", "2">>,
      <<"/", "o", "p", "d", "s", "/", "o", "p", "d", "s", "/", "b", "o", "o", "k", "/", "1", "/", "f", "i", "l", "e", "/", "e", "p", "u", "b">>,
      <<"/", "o", "p", "d", "s", "/", "o", "p", "d", "s", "/", "b", "o", "o", "k", "/", "1", "/", "c", "o", "v", "e", "r">>,
      <<"/", "o", "p", "d", "s", "/", "o", "p", "d", "s", "/", "b", "o", "o", "k", "/", "2", "/", "c", "o", "v", "e", "r">>,
      <<"/", "o", "p", "d", "s", "/", "o", "p", "d", "s", "/", "o", "p", "e", "n", "s", "e", "a", "r", "c", "h", ".", "x", "m", "l">>,
      <<"/", "d", "o", "c", "s">>,
      <<"/", "o", "p", "d", "s", "/", "b", "y", "-", "a", "u", "t", "h", "o", "r">> } :
    /\ op = Idle
    /\ op' = Op("request", "", 0, 0, 0, href)
    /\ out' = app(store, href)
    /\ UNCHANGED <<store, walk>>

\* the addresses the response the client holds points to: the location of
\* a redirect, the hrefs of a document (an author block may have no uri)
Hrefs(doc) ==
  {doc.links[k].href : k \in 1..Len(doc.links)}
    \cup UNION {{doc.entries[k].links[j].href : j \in 1..Len(doc.entries[k].links)} :
                 k \in 1..Len(doc.entries)}
    \cup UNION {{doc.entries[k].author[j].uri : j \in 1..Len(doc.entries[k].author)} \ {<<>>} :
                 k \in 1..Len(doc.entries)}

Targets(r) ==
  IF r.kind # "response" THEN {}
  ELSE IF r.status_code = 307 THEN {r.body.location}
  ELSE IF r.status_code = 200 /\ r.body.kind = "feed" THEN Hrefs(r.body)
  ELSE {}

\* the client follows the redirect or a link of the response it holds
FollowLink ==
  /\ op.name \in {"request", "follow"}
  /\ \E href \in Targets(out) :
    /\ op' = Op("follow", "", 0, 0, 0, href)
    /\ out' = app(store, href)
    /\ UNCHANGED <<store, walk>>

\* the call's result is handed back and its transient objects are dropped
Return ==
  /\ op # Idle
  /\ op' = Idle
  /\ out' = None
  /\ walk' = NoWalk
  /\ UNCHANGED store

Next ==
  \/ Return
  \/ CallGetBooks
  \/ CallGetAuthors
  \/ CallGetAuthorBooks
  \/ CallSearchBooks
  \/ CallGetBookFilePath
  \/ CallGetBookMimeType
  \/ CallGenerateRootFeed
  \/ NewestFeedFrom
  \/ TitleFeedFrom
  \/ AuthorFeedFrom
  \/ SearchFeedFrom
  \/ ByAuthorFeedFrom
  \/ CallGenerateNewestFeed
  \/ CallGenerateTitleFeed
  \/ CallGenerateByAuthorFeed
  \/ CallGenerateAuthorFeed
  \/ CallGenerateBookSearchFeed
  \/ GetRoot
  \/ GetByNewest
  \/ GetByTitle
  \/ GetAuthor
  \/ GetSearch
  \/ GetBookFile
  \/ ClientStart
  \/ FollowNext
  \/ Request
  \/ FollowLink

Spec == Init /\ [][Next]_vars

(***************************************************************************)
(* C1: pagination of the repository queries.                               *)
(***************************************************************************)
IsPagedQuery ==
  /\ op.name \in {"get_books", "get_authors", "get_author_books", "search_books"}
  /\ out.kind = "page"

\* the ordered result set of the query op names
ResultSet ==
  CASE op.name = "get_books" ->
         BooksOrderedBy(store, IF op.sort = "by_title" THEN "title" ELSE "last_modified")
    [] op.name = "get_authors" -> AuthorsOrdered(store)
    [] op.name = "get_author_books" -> AuthorBooksOrdered(store, op.id)
    [] op.name = "search_books" -> SearchOrdered(store, op.text)
    [] OTHER -> <<>>

RowIds(rows) == [k \in 1..Len(rows) |-> rows[k].id]

\* C1: for page >= 1 and pageSize >= 1 over an ordered result set of n rows,
\* each paginated repository query returns exactly the rows at positions
\* offset+1 .. min(offset+pageSize, n), offset = (page-1)*pageSize, never more
\* than pageSize rows; hasNext iff n > offset + pageSize; hasPrevious iff
\* offset > 0, so page 1 never has a previous page.
C1_Pagination ==
  IsPagedQuery =>
    LET n == Len(ResultSet)
        offset == (op.page - 1) * op.limit
        count == Max(0, Min(offset + op.limit, n) - offset)
    IN  /\ Len(out.rows) = count
        /\ Len(out.rows) <= op.limit
        /\ \A k \in 1..count : out.rows[k].id = ResultSet[offset + k]
        /\ out.has_next <=> (n > offset + op.limit)
        /\ out.has_previous <=> (offset > 0)
        /\ op.page = 1 => ~out.has_previous

\* a middle page of a query over books: rows returned, a page before and a
\* page after
C1_Witness ==
  /\ IsPagedQuery
  /\ op.name = "search_books"
  /\ op.page = 2
  /\ Len(out.rows) = op.limit
  /\ out.has_next
  /\ out.has_previous

(***************************************************************************)
(* C7: what a search term matches.                                         *)
(***************************************************************************)
\* the books whose title contains term, letter case aside
SubstringMatches(st, term) ==
  {i \in st.books : Contains(Lower(BookTitle(i)), Lower(term))}

\* C7: searchBooks(term) matches exactly the books whose title contains term
\* as a case-insensitive substring: the empty term matches every book, terms
\* that differ only in letter case give identical results, and no character
\* of the term means anything but itself.
C7_SubstringSearch ==
  (op.name = "search_books" /\ out.kind = "page") =>
    /\ SeqToSet(SearchOrdered(store, op.text)) = SubstringMatches(store, op.text)
    /\ \A k \in 1..Len(out.rows) : out.rows[k].id \in SubstringMatches(store, op.text)
    /\ op.text = <<>> => SeqToSet(SearchOrdered(store, op.text)) = store.books
    /\ \A t \in Terms :
         Lower(t) = Lower(op.text) => search_books(store, t, op.page, op.limit) = out

(***************************************************************************)
(* C8: the two NotFound failures of getBookFilePath.                       *)
(***************************************************************************)
BookHasFormat(book_id, book_format) ==
  \E k \in 1..Len(BookFiles(book_id)) :
    Lower(BookFiles(book_id)[k].format) = Lower(Strip(book_format))

\* C8: getBookFilePath fails with NotFound when the book does not exist, and
\* with a NotFound that differs from it when the book exists but has no file
\* of that format; an unknown book never reports a missing format; the
\* format is matched without regard to letter case.
C8_FilePathNotFound ==
  (op.name = "get_book_file_path" /\ store.present) =>
    /\ op.id \notin store.books =>
         /\ out.kind = "HTTPException" /\ out.status_code = 404
         /\ out.detail.msg = "Book with id not found"
    /\ (op.id \in store.books /\ ~BookHasFormat(op.id, op.text)) =>
         /\ out.kind = "HTTPException" /\ out.status_code = 404
         /\ out.detail.msg # "Book with id not found"
         /\ out.detail # get_book_file_path(store, MaxBooks + 1, op.text).detail
    /\ (op.id \in store.books /\ BookHasFormat(op.id, op.text)) =>
         /\ out.kind = "path"
         /\ \E k \in 1..Len(BookFiles(op.id)) :
              /\ Lower(BookFiles(op.id)[k].format) = Lower(Strip(op.text))
              /\ out.path = DbDir \o BookPath(op.id) \o <<"/">> \o BookFiles(op.id)[k].name
                              \o <<".">> \o Lower(Strip(op.text))

\* an existing book asked for in a format it has no file of
C8_Witness ==
  /\ op.name = "get_book_file_path"
  /\ store.present
  /\ op.id \in store.books
  /\ op.text = <<"m", "o", "b", "i">>
  /\ out.kind = "HTTPException"
  /\ out.status_code = 404

\* an existing book asked for in lower case in a format it has
C8_WitnessFound ==
  /\ op.name = "get_book_file_path"
  /\ op.text = <<"e", "p", "u", "b">>
  /\ out.kind = "path"

(***************************************************************************)
(* Reading a document back: what an XML parser makes of a slot, and what a *)
(* client makes of a link.                                                 *)
(***************************************************************************)
\* no reserved character is written raw: each & starts one of the five
\* entities html.escape writes, and < > " ' do not occur
RECURSIVE WellFormed(_)
WellFormed(s) ==
  IF s = <<>> THEN TRUE
  ELSE IF s[1] \in {"<", ">", "\"", "'"} THEN FALSE
  ELSE IF s[1] = "&"
    THEN \E e \in {Lit.amp, Lit.lt, Lit.gt, Lit.quot, Lit.apos} :
           StartsWith(s, e) /\ WellFormed(SubSeq(s, Len(e) + 1, Len(s)))
  ELSE WellFormed(Tail(s))

PageRels == {"self", "first", "previous", "next"}

BookFeedOps ==
  {"generate_newest_feed_from", "generate_title_feed_from", "generate_author_feed_from",
   "generate_book_search_feed_from"}

FeedOps == BookFeedOps \cup {"generate_by_author_feed_from", "generate_root_feed"}

\* what the repository returned to the feed builder for the call op names
SourcePage ==
  CASE op.name = "generate_newest_feed_from" -> get_books(store, "by_newest", op.page, op.limit)
    [] op.name = "generate_title_feed_from" -> get_books(store, "by_title", op.page, op.limit)
    [] op.name = "generate_author_feed_from" -> get_author_books(store, op.id, op.page, op.limit)
    [] op.name = "generate_book_search_feed_from" -> search_books(store, op.text, op.page, op.limit)
    [] op.name = "generate_by_author_feed_from" -> get_authors(store, op.page, op.limit)
    [] OTHER -> Page(<<>>, FALSE, FALSE)

BuiltFeed == op.name \in FeedOps /\ out.kind = "feed"

(***************************************************************************)
(* C2: the links of a feed.                                                *)
(***************************************************************************)
PageLinkTo(doc, rel, page) ==
  /\ Len(LinksOf(doc, rel)) = 1
  /\ HrefParam(LinksOf(doc, rel)[1].href, <<"p", "a", "g", "e">>) = <<Str(page)>>

FixedLinks(doc) ==
  /\ Len(LinksOf(doc, "start")) = 1
  /\ LinksOf(doc, "start")[1].href = Lit.opds
  /\ Len(LinksOf(doc, "search")) = 1
  /\ LinksOf(doc, "search")[1].href = Lit.opensearch

PagingLinks(doc) ==
  /\ PageLinkTo(doc, "self", op.page)
  /\ PageLinkTo(doc, "first", 1)
  /\ IF SourcePage.has_previous THEN PageLinkTo(doc, "previous", op.page - 1)
                                ELSE LinksOf(doc, "previous") = <<>>
  /\ IF SourcePage.has_next THEN PageLinkTo(doc, "next", op.page + 1)
                            ELSE LinksOf(doc, "next") = <<>>

\* C2: every feed the feed builder produces (root, by-newest, by-title,
\* authors list, author's books, search) contains the start and search links
\* and the self and first links, a previous link iff hasPrevious and a next
\* link iff hasNext, previous pointing to page-1 and next to page+1.
C2_FeedLinks == BuiltFeed => (FixedLinks(out) /\ PagingLinks(out))

PagedEndpoints ==
  {"GET /opds/by-newest", "GET /opds/by-title", "GET /opds/author/{author_id}", "GET /opds/search"}

BuilderCalls ==
  {"generate_newest_feed", "generate_title_feed", "generate_author_feed",
   "generate_book_search_feed"}

\* C4: with a reachable store, a request with a valid page to a paginated
\* feed endpoint (for the author endpoint, of an existing author) ends in a
\* feed document of media type application/atom+xml, never in an internal
\* error: the handler's call to the feed builder and the feed builder's call
\* to the repository complete with the arguments they are given.
C4_FeedRequestsSucceed ==
  /\ (/\ op.name \in PagedEndpoints
      /\ store.present
      /\ op.page >= 1
      /\ op.name = "GET /opds/author/{author_id}" => op.id \in AuthorIds)
     => (out.status_code # 500 /\ out.media_type = AtomXml /\ out.body.kind = "feed")
  /\ (op.name \in BuilderCalls /\ store.present) => out.kind # "TypeError"

(***************************************************************************)
(* C5: a book without authors.                                             *)
(***************************************************************************)
\* C5: a book whose author list is empty becomes an item with no primary
\* author, and the feed that holds it is serialized without an author block
\* for that entry; building the feed does not fail.
C5_BookWithoutAuthor ==
  (/\ op.name \in {"generate_newest_feed_from", "generate_title_feed_from",
                   "generate_book_search_feed_from"}
   /\ SourcePage.kind = "page")
  => /\ out.kind = "feed"
     /\ Len(out.entries) = Len(SourcePage.rows)
     /\ \A k \in 1..Len(out.entries) :
          SourcePage.rows[k].authors = <<>> <=> out.entries[k].author = <<>>

HasReserved(s) == \E k \in 1..Len(s) : s[k] \in {"&", "<", ">", "\"", "'"}

X_azw3 == <<"a", "z", "w", "3">>
X_azw == <<"a", "z", "w">>
X_cbz == <<"c", "b", "z">>
X_cbr == <<"c", "b", "r">>
X_txt == <<"t", "x", "t">>
X_rtf == <<"r", "t", "f">>

\* the table as the specification gives it
TableOfSpec ==
  (Lit.epub :> "application/epub+zip") @@ (Lit.pdf :> "application/pdf") @@
  (Lit.mobi :> "application/x-mobipocket-ebook") @@
  (Lit.fb2 :> "application/x-fictionbook+xml") @@ (Lit.djvu :> "image/vnd.djvu") @@
  (X_azw3 :> "application/vnd.amazon.ebook") @@ (X_azw :> "application/vnd.amazon.ebook") @@
  (X_cbz :> "application/x-cbz") @@ (X_cbr :> "application/x-cbr") @@
  (X_txt :> "text/plain;charset=utf-8") @@ (X_rtf :> "application/rtf")

TypeOfSpec(extension) ==
  IF Lower(extension) \in DOMAIN TableOfSpec THEN TableOfSpec[Lower(extension)]
  ELSE "application/octet-stream"

\* C9: the lookup returns, for every extension of the table in any letter
\* case, the type the table gives, and application/octet-stream for any
\* other extension; the same lookup types the acquisition links of a feed
\* and the Content-Type of a file download.
C9_MimeTable ==
  /\ op.name = "get_book_mime_type" => out.type = TypeOfSpec(op.text)
  /\ (op.name = "GET /opds/book/{book_id}/file/{file_format}" /\ out.status_code = 200) =>
       out.media_type = TypeOfSpec(Strip(op.text))
  /\ (BuiltFeed /\ op.name \in BookFeedOps) =>
       \A k \in 1..Len(out.entries) : \A j \in 1..Len(SourcePage.rows[k].files) :
         out.entries[k].links[j].type = TypeOfSpec(SourcePage.rows[k].files[j].format)

(***************************************************************************)
(* C10: the item id.                                                       *)
(***************************************************************************)
\* the id of the item of each book, by the book's primary key alone
ItemIdOfBook == [i \in 1..(MaxBooks + 1) |-> generate_book_id(Str(i))]

S_id_of_book_1 == <<"c", "a", "l", "i", "b", "r", "e", "-", "n", "a", "v", "c", "a", "t", "a", "l", "o", "g", ":", "3", "5", "6", "a", "1", "9", "2", "b", "7", "9", "1", "3", "b", "0", "4", "c", "5", "4", "5", "7", "4", "d", "1", "8", "c", "2", "8", "d", "4", "6", "e", "6", "3", "9", "5", "4", "2", "8", "a", "b">>

IsErrorResponse == out.kind = "response" /\ out.status_code >= 400

GenericMessage == Detail("Internal Server Error", 0, <<>>)

\* the requests whose handler reads the store before anything else can fail
ReadsStore == {"GET /opds/book/{book_id}/file/{file_format}"}

\* C11: no error response sent to a client holds an internal filesystem path
\* or a detail of the store: when the metadata store is missing the request
\* ends with status 500 and the generic message, the detail being logged
\* only.
C11_NoPathInErrors ==
  /\ IsErrorResponse =>
       /\ ~Contains(out.body.text, DbDir)
       /\ out.status_code = 500 => out.body = GenericMessage
  /\ (out.kind = "response" /\ op.name \in ReadsStore /\ ~store.present) =>
       (out.status_code = 500 /\ out.body = GenericMessage)


(***************************************************************************)
(* C12: a client that follows the next links of a listing.                 *)
(***************************************************************************)
\* the ordered result set of the listing the client walks
WalkResultSet ==
  CASE op.name = "generate_newest_feed_from" -> BooksOrderedBy(store, "last_modified")
    [] op.name = "generate_title_feed_from" -> BooksOrderedBy(store, "title")
    [] op.name = "generate_author_feed_from" -> AuthorBooksOrdered(store, op.id)
    [] op.name = "generate_book_search_feed_from" -> SearchOrdered(store, op.text)
    [] OTHER -> <<>>

LastPage(n, pageSize) == Max(1, (n + pageSize - 1) \div pageSize)

\* what the claim says of the walk at the document the client holds, given
\* that the request for it gave a document
WalkSoFar ==
  LET n == Len(WalkResultSet)
  IN  /\ walk.steps = op.page
      /\ op.page <= LastPage(n, op.limit)
      /\ walk.seen = [k \in 1..Min(op.page * op.limit, n) |-> ItemIdOfBook[WalkResultSet[k]]]
      /\ LinksOf(out, "next") = <<>> =>
           (op.page = LastPage(n, op.limit) /\ Len(walk.seen) = n)
      /\ LinksOf(out, "next") # <<>> => op.page < LastPage(n, op.limit)
      /\ op.page > 1 => out.entries # <<>>

\* C12: for a fixed store with n matching rows and a page size >= 1, a
\* client that starts at page 1 and follows the next link while there is one
\* stops after finitely many steps at page max(1, ceil(n / pageSize)); the
\* pages it visited, in order, are the whole ordered result set with every
\* row once, and no visited page but page 1 of an empty result is empty.
C12_ClientWalk ==
  (walk.on /\ store.present) => (out.kind = "feed" /\ WalkSoFar)

\* the same of the walks on which every request gave a document
C12_WalkOfDocuments ==
  (walk.on /\ out.kind = "feed") => WalkSoFar

\* a walk that ended on its third page with every row seen
C12_WalkEnded ==
  /\ walk.on /\ out.kind = "feed"
  /\ op.page = 3
  /\ LinksOf(out, "next") = <<>>
  /\ Len(walk.seen) = Len(WalkResultSet)


(***************************************************************************)
(* C13: the links the server emits lead to routes of the application.      *)
(***************************************************************************)
Routed(href) == \E r \in create_app(ConfigV) : Matches(r, HrefPath(href))

\* C13: every href the server emits (the target of the root redirect, the
\* start and search links, self/first/previous/next, the root feed's three
\* navigation entries, author uris, acquisition and cover links) is a path
\* the application assembled by create_app with the default prefix routes
\* to a handler; a client that starts at / and follows emitted links only
\* never requests a path without a route.
C13_LinksRouted ==
  /\ BuiltFeed => \A h \in Hrefs(out) : Routed(h)
  /\ (op.name = "follow" \/ (op.name = "request" /\ op.text = <<"/">>)) =>
       /\ Routed(op.text)
       /\ \A h \in Targets(out) : Routed(h)

============================================================================
